---- MODULE Spec2Model ----
(***************************************************************************)
(* food-insight-ai: the analysis bridge (the POST handler of the analyze   *)
(* route, src/unnamed/part_000) and the capture/upload client (the Home    *)
(* component, src/unnamed/part_001, second revision, lines 258-594).       *)
(*                                                                         *)
(* Text is modelled as a sequence of one-character strings, so that the    *)
(* regular expression of the bridge and JSON.parse are computed character  *)
(* by character.                                                           *)
(***************************************************************************)
EXTENDS Integers, Sequences, FiniteSets, TLC

VARIABLES
    \* ---- bridge (one invocation of POST) ----
    bpc,            \* position of the handler: "recv", "calling", "done"
    reqBody,        \* the body of the HTTP request
    upstream,       \* what the external model call produced (None before)
    extCalls,       \* number of external model calls issued
    responses,      \* the responses the handler has returned, in order
    \* ---- client (one mounted Home component) ----
    selectedImage,  \* useState<string | null>: the CapturedImage
    analysisResult, \* useState<AnalysisResult | null>
    isAnalyzing,    \* useState(false)
    error,          \* useState<string | null>
    showCamera,     \* useState(false)
    readers,        \* FileReaders whose readAsDataURL has not completed
    inflight,       \* fetch calls that have not settled, oldest first
    lastFile        \* the file of the latest selection that was accepted

bridgeVars == <<bpc, reqBody, upstream, extCalls, responses>>
clientVars == <<selectedImage, analysisResult, isAnalyzing, error, showCamera,
                readers, inflight, lastFile>>
vars == <<bpc, reqBody, upstream, extCalls, responses,
          selectedImage, analysisResult, isAnalyzing, error, showCamera,
          readers, inflight, lastFile>>

\* Optional values: null / undefined is None, a present value x is Some(x).
None == <<>>
Some(x) == <<x>>
IsSome(o) == Len(o) = 1
Get(o) == o[1]

(***************************************************************************)
(* Bounds.                                                                 *)
(***************************************************************************)
\* A model reply is the concatenation of at most MaxParts text fragments.
MaxParts == 5
\* At most MaxInflight fetch calls are outstanding at the same time.
MaxInflight == 3
\* At most MaxReaders file decodes are pending at the same time.
MaxReaders == 2

(***************************************************************************)
(* Characters and text fragments.                                          *)
(***************************************************************************)
\* The backtick character U+0060 (the lexer of TLA+ takes no backtick in a
\* string, so the character is named).
BT == "BT"
FENCE == <<BT, BT, BT, "j", "s", "o", "n">>
TICKS == <<BT, BT, BT>>
NL == <<"\n">>
OBJOPEN == <<"{", "\"", "a", "\"", ":", "\"">>
OBJCLOSE == <<"\"", "}">>
ONE == <<"1">>
WORD == <<"x">>

\* The fragments: the two fences, a newline, the two halves of an object
\* with one string member, a number and a letter.
Parts == {FENCE, TICKS, NL, OBJOPEN, OBJCLOSE, ONE, WORD}

RECURSIVE Flatten(_)
Flatten(ps) == IF ps = <<>> THEN <<>> ELSE Head(ps) \o Flatten(Tail(ps))

\* Every text the external model may reply with, within the bound.
Replies == { Flatten(ps) : ps \in UNION { [1..n -> Parts] : n \in 0..MaxParts } }

Digits == {"0", "1", "2", "3", "4", "5", "6", "7", "8", "9"}

DigitVal(c) ==
    CASE c = "0" -> 0 [] c = "1" -> 1 [] c = "2" -> 2 [] c = "3" -> 3
      [] c = "4" -> 4 [] c = "5" -> 5 [] c = "6" -> 6 [] c = "7" -> 7
      [] c = "8" -> 8 [] c = "9" -> 9

\* \s of a JavaScript regular expression (the ASCII members).
RegexWs == {" ", "\t", "\n", "\r", "\f"}
\* The whitespace JSON.parse skips.
JsonWs == {" ", "\t", "\n", "\r"}

\* Does text s carry the characters p at position i (1-based)?
HasAt(s, i, p) ==
    /\ i >= 1
    /\ i + Len(p) - 1 <= Len(s)
    /\ SubSeq(s, i, i + Len(p) - 1) = p

\* Length of the longest run of characters of set ws that starts at i.
RECURSIVE Run(_, _, _)
Run(s, i, ws) ==
    IF i <= Len(s) /\ s[i] \in ws THEN 1 + Run(s, i + 1, ws) ELSE 0

(***************************************************************************)
(* analysisText.match(/```json\s*([\s\S]+?)\s*```|({[\s\S]+})/)            *)
(***************************************************************************)
\* \s*``` at position e: the greedy run of whitespace, then the three ticks
\* (a shorter run leaves a whitespace character where a tick is needed).
ClosesAt(s, e) == HasAt(s, e + Run(s, e, RegexWs), TICKS)

\* First alternative at position i: the pairs <<w, k>> of a whitespace count
\* w (greedy \s*) and a group length k (lazy [\s\S]+?) that make it match.
FenceChoices(s, i) ==
    IF ~HasAt(s, i, FENCE) THEN {}
    ELSE LET p == i + Len(FENCE)
         IN  { c \in (0..Run(s, p, RegexWs)) \X (1..Len(s)) :
                 /\ p + c[1] + c[2] - 1 <= Len(s)
                 /\ ClosesAt(s, p + c[1] + c[2]) }

\* The backtracking order: most leading whitespace first, then the shortest
\* group.  The result is capture group 1.
FenceGroup(s, i) ==
    LET cs == FenceChoices(s, i)
        w  == CHOOSE w \in { c[1] : c \in cs } : \A c \in cs : c[1] <= w
        k  == CHOOSE k \in { c[2] : c \in { d \in cs : d[1] = w } } :
                  \A c \in { d \in cs : d[1] = w } : k <= c[2]
        g  == i + Len(FENCE) + w
    IN  SubSeq(s, g, g + k - 1)

\* Second alternative at position i: "{", at least one character, and the
\* LAST "}" of the text (greedy [\s\S]+).  The positions of that "}".
BraceEnds(s, i) ==
    IF i <= Len(s) /\ s[i] = "{"
    THEN { j \in (i + 2)..Len(s) : s[j] = "}" }
    ELSE {}

BraceGroup(s, i) ==
    LET js == BraceEnds(s, i)
        j  == CHOOSE j \in js : \A m \in js : m <= j
    IN  SubSeq(s, i, j)

MatchesAt(s, i) == FenceChoices(s, i) # {} \/ BraceEnds(s, i) # {}

\* String.prototype.match without the g flag: the leftmost position where
\* either alternative matches, the first alternative tried first there.
\* The result is None (null) or Some([g1, g2]) with the two capture groups.
Match(s) ==
    LET ps == { i \in 1..Len(s) : MatchesAt(s, i) }
    IN  IF ps = {} THEN None
        ELSE LET i == CHOOSE i \in ps : \A m \in ps : i <= m
             IN  IF FenceChoices(s, i) # {}
                 THEN Some([g1 |-> Some(FenceGroup(s, i)), g2 |-> None])
                 ELSE Some([g1 |-> None, g2 |-> Some(BraceGroup(s, i))])

\* let jsonString = analysisText; if (match) jsonString = match[1] || match[2]
\* (capture group 1 is never the empty string: its + needs one character).
ExtractJsonString(analysisText) ==
    LET match == Match(analysisText)
    IN  IF IsSome(match)
        THEN IF IsSome(Get(match).g1) THEN Get(Get(match).g1)
                                      ELSE Get(Get(match).g2)
        ELSE analysisText

(***************************************************************************)
(* JSON.parse(jsonString).  A parse position yields a record               *)
(* [ok, val, pos]: whether a value was read, the value, and the position   *)
(* after it.  Values are tagged pairs <<"num" | "str" | "lit" | "arr" |    *)
(* "obj", v>>; an object is a function from its keys to its values (a      *)
(* repeated key keeps its last value, as JSON.parse does).  Escapes,       *)
(* fractions and exponents are not read: "\\", "." and "e" occur in no     *)
(* text of the model.                                                      *)
(***************************************************************************)
Fail == [ok |-> FALSE, val |-> None, pos |-> 0]
Ok(v, p) == [ok |-> TRUE, val |-> Some(v), pos |-> p]

SkipWs(s, i) == i + Run(s, i, JsonWs)

\* The positions of the double quotes from position i on.
StrChars(s, i) == { j \in i..Len(s) : s[j] = "\"" }

ParseString(s, i) ==
    IF ~(i <= Len(s) /\ s[i] = "\"") \/ StrChars(s, i + 1) = {} THEN Fail
    ELSE LET j == CHOOSE j \in StrChars(s, i + 1) :
                      \A m \in StrChars(s, i + 1) : j <= m
             body == SubSeq(s, i + 1, j - 1)
         IN  IF \E m \in 1..Len(body) : body[m] \in {"\n", "\r", "\t", "\f", "\\"}
             THEN Fail
             ELSE Ok(<<"str", body>>, j + 1)

RECURSIVE NumVal(_)
NumVal(ds) ==
    IF ds = <<>> THEN 0
    ELSE 10 * NumVal(SubSeq(ds, 1, Len(ds) - 1)) + DigitVal(ds[Len(ds)])

ParseNumber(s, i) ==
    LET neg == i <= Len(s) /\ s[i] = "-"
        d   == IF neg THEN i + 1 ELSE i
        n   == Run(s, d, Digits)
    IN  IF n = 0 \/ (n > 1 /\ s[d] = "0") THEN Fail
        ELSE LET m == NumVal(SubSeq(s, d, d + n - 1))
             IN  Ok(<<"num", IF neg THEN 0 - m ELSE m>>, d + n)

TRUE_LIT == <<"t", "r", "u", "e">>
FALSE_LIT == <<"f", "a", "l", "s", "e">>
NULL_LIT == <<"n", "u", "l", "l">>

ParseLiteral(s, i) ==
    IF HasAt(s, i, TRUE_LIT) THEN Ok(<<"lit", "true">>, i + 4)
    ELSE IF HasAt(s, i, FALSE_LIT) THEN Ok(<<"lit", "false">>, i + 5)
    ELSE IF HasAt(s, i, NULL_LIT) THEN Ok(<<"lit", "null">>, i + 4)
    ELSE Fail

RECURSIVE ParseValue(_, _), ParseMembers(_, _, _), ParseElements(_, _, _)

\* A value at position i (whitespace before it already skipped).
ParseValue(s, i) ==
    IF i > Len(s) THEN Fail
    ELSE IF s[i] = "{" THEN
        LET j == SkipWs(s, i + 1)
        IN  IF j <= Len(s) /\ s[j] = "}"
            THEN Ok(<<"obj", <<>> >>, j + 1)
            ELSE ParseMembers(s, j, <<>>)
    ELSE IF s[i] = "[" THEN
        LET j == SkipWs(s, i + 1)
        IN  IF j <= Len(s) /\ s[j] = "]"
            THEN Ok(<<"arr", <<>> >>, j + 1)
            ELSE ParseElements(s, j, <<>>)
    ELSE IF s[i] = "\"" THEN ParseString(s, i)
    ELSE IF s[i] \in Digits \cup {"-"} THEN ParseNumber(s, i)
    ELSE ParseLiteral(s, i)

\* The members of an object from position i on (a key is expected at i);
\* acc holds the members read so far.
ParseMembers(s, i, acc) ==
    LET k == ParseString(s, i)
    IN  IF ~k.ok THEN Fail
        ELSE LET c == SkipWs(s, k.pos)
             IN  IF ~(c <= Len(s) /\ s[c] = ":") THEN Fail
                 ELSE LET v == ParseValue(s, SkipWs(s, c + 1))
                      IN  IF ~v.ok THEN Fail
                          ELSE LET e   == SkipWs(s, v.pos)
                                   key == Get(k.val)[2]
                                   new == (key :> Get(v.val)) @@ acc
                               IN  IF e > Len(s) THEN Fail
                                   ELSE IF s[e] = "}"
                                        THEN Ok(<<"obj", new>>, e + 1)
                                   ELSE IF s[e] = ","
                                        THEN ParseMembers(s, SkipWs(s, e + 1), new)
                                   ELSE Fail

\* The elements of an array from position i on.
ParseElements(s, i, acc) ==
    LET v == ParseValue(s, i)
    IN  IF ~v.ok THEN Fail
        ELSE LET e   == SkipWs(s, v.pos)
                 new == Append(acc, Get(v.val))
             IN  IF e > Len(s) THEN Fail
                 ELSE IF s[e] = "]" THEN Ok(<<"arr", new>>, e + 1)
                 ELSE IF s[e] = ","
                      THEN ParseElements(s, SkipWs(s, e + 1), new)
                 ELSE Fail

\* JSON.parse: one value, whitespace around it, nothing else.  ok = FALSE
\* is the SyntaxError.
JSONParse(s) ==
    LET r == ParseValue(s, SkipWs(s, 1))
    IN  IF r.ok /\ SkipWs(s, r.pos) = Len(s) + 1 THEN r ELSE Fail

(***************************************************************************)
(* The analysis bridge: POST of the analyze route.                         *)
(***************************************************************************)
\* A data URI as the client sends it (the payload is one character).
SampleImage == <<"d", "a", "t", "a", ":", "i", "m", "a", "g", "e", "/",
                 "p", "n", "g", ";", "b", "a", "s", "e", "6", "4", ",", "A">>

\* Request bodies.  <<"unparsable">> is a body request.json() rejects (a
\* zero-length body, text that is not JSON); <<"null">> is the JSON text
\* null; <<"object", image>> is a JSON object whose image member is absent,
\* null, a string or a number.
ImageValues == { <<"absent">>, <<"null">>, <<"string", <<>> >>,
                 <<"string", SampleImage>>, <<"number", 0>>, <<"number", 5>> }

RequestBodies == { <<"unparsable">>, <<"null">> }
                     \cup { <<"object", im>> : im \in ImageValues }

\* !image
Falsy(im) ==
    \/ im[1] \in {"absent", "null"}
    \/ im[1] = "string" /\ im[2] = <<>>
    \/ im[1] = "number" /\ im[2] = 0

\* The responses of the handler: a status and the members of the JSON body
\* (error, raw, details), or the value returned with status 200.
MissingImageResponse ==
    [status |-> 400, error |-> Some("No image provided"),
     raw |-> None, details |-> None, value |-> None]

ParseFailureResponse(analysisText) ==
    [status |-> 500, error |-> Some("Failed to parse analysis response"),
     raw |-> Some(analysisText), details |-> None, value |-> None]

\* GenericFailureResponse with the details member left out of the body.
GenericFailureNoDetails(message) ==
    [status |-> 500, error |-> Some("Failed to analyze food image"),
     raw |-> None, details |-> None, value |-> None]

GenericFailureResponse(message) ==
    [status |-> 500, error |-> Some("Failed to analyze food image"),
     raw |-> None, details |-> Some(message), value |-> None]

OkResponse(analysis) ==
    [status |-> 200, error |-> None, raw |-> None, details |-> None,
     value |-> Some(analysis)]

\* Lines 10-23: what the handler does before the external call.  Some(r) is
\* the response it returns without calling; None means it goes on to call.
BeforeCall(body) ==
    IF body[1] = "unparsable"
    THEN Some(GenericFailureResponse("Unexpected end of JSON input"))
    ELSE IF body[1] = "null"
    THEN Some(GenericFailureResponse("Cannot destructure property 'image' of null"))
    ELSE IF Falsy(body[2]) THEN Some(MissingImageResponse)
    ELSE IF body[2][1] # "string"
    THEN Some(GenericFailureResponse("image.slice is not a function"))
    ELSE None

\* What the external model call may produce: it throws, it returns no text
\* content (no choice, no message, null content), or it returns a text.
UpstreamOutcomes ==
    { <<"throws", m>> : m \in {"401 Incorrect API key provided", "Connection error."} }
        \cup { <<"nocontent">> }
        \cup { <<"text", t>> : t \in Replies }

\* ParseAnalysis reporting the extracted candidate, not the model text, as raw.
ParseAnalysisRawCandidate(analysisText) ==
    LET jsonString == ExtractJsonString(analysisText)
        analysis   == JSONParse(jsonString)
    IN  IF analysis.ok
        THEN [status |-> 200, error |-> None, raw |-> None, details |-> None,
              value |-> Some(Get(analysis.val))]
        ELSE [status |-> 500, error |-> Some("Failed to parse analysis response"),
              raw |-> Some(jsonString), details |-> None, value |-> None]

\* Lines 56-73: extraction and parsing of a non-empty model text.
ParseAnalysis(analysisText) ==
    LET jsonString == ExtractJsonString(analysisText)
        analysis   == JSONParse(jsonString)
    IN  IF analysis.ok THEN OkResponse(Get(analysis.val))
                       ELSE ParseFailureResponse(analysisText)

\* Lines 48-81: what the handler returns once the external call has settled.
AfterCall(outcome) ==
    IF outcome[1] = "throws" THEN GenericFailureResponse(outcome[2])
    ELSE IF outcome[1] = "nocontent" \/ outcome[2] = <<>>
    THEN GenericFailureResponse("No analysis received from GPT")
    ELSE ParseAnalysis(outcome[2])

\* ---- the handler as a process ----
InitBridgeVars ==
    /\ bpc = "recv"
    /\ reqBody \in RequestBodies
    /\ upstream = None
    /\ extCalls = 0
    /\ responses = <<>>

\* await request.json(), the image check, and openai.chat.completions.create
\* being issued (lines 10-46).
BridgeReceive ==
    /\ bpc = "recv"
    /\ LET early == BeforeCall(reqBody)
       IN  IF IsSome(early)
           THEN /\ responses' = Append(responses, Get(early))
                /\ bpc' = "done"
                /\ extCalls' = extCalls
           ELSE /\ responses' = responses
                /\ bpc' = "calling"
                /\ extCalls' = extCalls + 1
    /\ UNCHANGED <<reqBody, upstream>>
    /\ UNCHANGED clientVars

\* The external call settles and the handler runs to its return (lines 48-81).
BridgeUpstream ==
    /\ bpc = "calling"
    /\ \E outcome \in UpstreamOutcomes :
          /\ upstream' = Some(outcome)
          /\ responses' = Append(responses, AfterCall(outcome))
    /\ bpc' = "done"
    /\ UNCHANGED <<reqBody, extCalls>>
    /\ UNCHANGED clientVars

(***************************************************************************)
(* The capture/upload client: the Home component.                          *)
(***************************************************************************)
IMAGE_SLASH == <<"i", "m", "a", "g", "e", "/">>
IMAGE_PNG == IMAGE_SLASH \o <<"p", "n", "g">>
IMAGE_JPEG == IMAGE_SLASH \o <<"j", "p", "e", "g">>
TEXT_PLAIN == <<"t", "e", "x", "t", "/", "p", "l", "a", "i", "n">>
IMAGE_NO_SLASH == <<"i", "m", "a", "g", "e">>

\* 5 * 1024 * 1024 of line 301.
MaxBytes == 5 * 1024 * 1024

\* The files a user may pick: a declared MIME type (possibly empty) and a
\* size in bytes.
FileTypes == {IMAGE_PNG, TEXT_PLAIN, IMAGE_NO_SLASH, <<>>}
FileSizes == {1, MaxBytes, MaxBytes + 1}
Files == [type : FileTypes, size : FileSizes]

\* String.prototype.startsWith
StartsWith(s, p) == Len(s) >= Len(p) /\ SubSeq(s, 1, Len(p)) = p

\* The base64 payload of a file, abstracted to one character per content.
Payload(file) ==
    IF file.size = 1 THEN <<"A">>
    ELSE IF file.size = MaxBytes THEN <<"B">>
    ELSE <<"D">>

DataUrl(type, payload) ==
    <<"d", "a", "t", "a", ":">> \o type
        \o <<";", "b", "a", "s", "e", "6", "4", ",">> \o payload

\* FileReader.readAsDataURL: the result handed to onload.
ReadAsDataURL(file) == DataUrl(file.type, Payload(file))

\* webcamRef.current.getScreenshot(): a JPEG data URI, or null while the
\* video is not ready.
Screenshots == {None, Some(DataUrl(IMAGE_JPEG, <<"C">>))}

\* TypeAccepted with the type check left out.
TypeAcceptedAny(file) == TRUE

\* file.type.startsWith('image/') of line 295.
TypeAccepted(file) == StartsWith(file.type, IMAGE_SLASH)

\* TooLarge with >= for >.
TooLargeAtLimit(file) == file.size >= 5 * 1024 * 1024

\* file.size > 5 * 1024 * 1024 of line 301.
TooLarge(file) == file.size > MaxBytes

InvalidTypeMessage == "Please select an image file"
TooLargeMessage == "Image size should be less than 5MB"

\* The ways a fetch of /api/analyze settles: a 200 whose body is the
\* analysis of the image that was sent, a 200 whose body is the JSON null, a
\* 200 whose body is not JSON, a non-OK JSON response with or without an
\* error member, a non-OK response that is not JSON, a rejection.
Settlements ==
    { <<"ok", "analysis">>, <<"ok", "null">>, <<"okBadJson">>,
      <<"failJson", Some("Failed to parse analysis response")>>,
      <<"failJson", Some("Failed to analyze food image")>>,
      <<"failJson", None>>, <<"failOther">>, <<"rejects">> }

\* await response.json() of a 200 response to a request carrying image.
ResultOf(settlement, image) ==
    IF settlement[2] = "analysis" THEN Some(<<"analysis", image>>) ELSE None

\* The message of the Error that reaches the catch clause (lines 346-360).
FailureMessage(settlement) ==
    IF settlement[1] = "failJson"
    THEN IF IsSome(settlement[2]) THEN Get(settlement[2])
                                  ELSE "Failed to analyze image"
    ELSE IF settlement[1] = "failOther" THEN "Failed to analyze image"
    ELSE IF settlement[1] = "rejects" THEN "Failed to fetch"
    ELSE "Unexpected token < in JSON at position 0"

InitClientVars ==
    /\ selectedImage = None
    /\ analysisResult = None
    /\ isAnalyzing = FALSE
    /\ error = None
    /\ showCamera = FALSE
    /\ readers = <<>>
    /\ inflight = <<>>
    /\ lastFile = None

RemoveAt(q, i) == SubSeq(q, 1, i - 1) \o SubSeq(q, i + 1, Len(q))

\* handleImageUpload clearing the held image and result when it rejects.
handleImageUploadResetting(file) ==
    /\ IF ~StartsWith(file.type, IMAGE_SLASH)
       THEN /\ error' = Some(InvalidTypeMessage)
            /\ selectedImage' = None
            /\ analysisResult' = None
            /\ UNCHANGED <<readers, lastFile>>
       ELSE IF file.size > MaxBytes
       THEN /\ error' = Some(TooLargeMessage)
            /\ selectedImage' = None
            /\ analysisResult' = None
            /\ UNCHANGED <<readers, lastFile>>
       ELSE /\ Len(readers) < MaxReaders
            /\ readers' = Append(readers, file)
            /\ lastFile' = Some(file)
            /\ UNCHANGED <<error, selectedImage, analysisResult>>
    /\ UNCHANGED <<isAnalyzing, showCamera, inflight>>
    /\ UNCHANGED bridgeVars

\* handleImageUpload (lines 291-314) up to reader.readAsDataURL(file).
handleImageUpload(file) ==
    /\ IF ~TypeAccepted(file)
       THEN /\ error' = Some(InvalidTypeMessage)
            /\ UNCHANGED <<readers, lastFile>>
       ELSE IF TooLarge(file)
       THEN /\ error' = Some(TooLargeMessage)
            /\ UNCHANGED <<readers, lastFile>>
       ELSE /\ Len(readers) < MaxReaders
            /\ readers' = Append(readers, file)
            /\ lastFile' = Some(file)
            /\ UNCHANGED error
    /\ UNCHANGED <<selectedImage, analysisResult, isAnalyzing, showCamera, inflight>>
    /\ UNCHANGED bridgeVars

\* readerOnload with setError(null) left out.
readerOnloadKeepsError(i) ==
    /\ i \in 1..Len(readers)
    /\ selectedImage' = Some(ReadAsDataURL(readers[i]))
    /\ analysisResult' = None
    /\ readers' = RemoveAt(readers, i)
    /\ UNCHANGED <<error, isAnalyzing, showCamera, inflight, lastFile>>
    /\ UNCHANGED bridgeVars

\* reader.onload (lines 307-311) of the i-th pending reader.
readerOnload(i) ==
    /\ i \in 1..Len(readers)
    /\ selectedImage' = Some(ReadAsDataURL(readers[i]))
    /\ analysisResult' = None
    /\ error' = None
    /\ readers' = RemoveAt(readers, i)
    /\ UNCHANGED <<isAnalyzing, showCamera, inflight, lastFile>>
    /\ UNCHANGED bridgeVars

\* handleCapture (lines 316-318).
handleCapture ==
    /\ showCamera' = TRUE
    /\ UNCHANGED <<selectedImage, analysisResult, isAnalyzing, error, readers,
                   inflight, lastFile>>
    /\ UNCHANGED bridgeVars

\* The Cancel button of the camera modal.
cancelCamera ==
    /\ showCamera
    /\ showCamera' = FALSE
    /\ UNCHANGED <<selectedImage, analysisResult, isAnalyzing, error, readers,
                   inflight, lastFile>>
    /\ UNCHANGED bridgeVars

\* captureImage (lines 320-330); the Capture button and the webcam exist
\* only while the modal is shown.
captureImage(imageSrc) ==
    /\ showCamera
    /\ IF IsSome(imageSrc)
       THEN /\ selectedImage' = imageSrc
            /\ analysisResult' = None
            /\ error' = None
            /\ showCamera' = FALSE
       ELSE UNCHANGED <<selectedImage, analysisResult, error, showCamera>>
    /\ UNCHANGED <<isAnalyzing, readers, inflight, lastFile>>
    /\ UNCHANGED bridgeVars

\* AnalyzeEnabled with the button never disabled.
AnalyzeEnabledAlways == selectedImage # <<>>

\* The Analyze button is rendered while an image is held (line 421) and is
\* disabled while isAnalyzing (line 434).
AnalyzeEnabled == IsSome(selectedImage) /\ ~isAnalyzing

\* handleAnalyze (lines 332-344) up to the fetch being issued.
handleAnalyze ==
    /\ AnalyzeEnabled
    /\ IsSome(selectedImage)
    /\ Len(inflight) < MaxInflight
    /\ isAnalyzing' = TRUE
    /\ error' = None
    /\ inflight' = Append(inflight, [image |-> Get(selectedImage)])
    /\ UNCHANGED <<selectedImage, analysisResult, showCamera, readers, lastFile>>
    /\ UNCHANGED bridgeVars

\* fetchSettles with setIsAnalyzing(false) in the catch clause only.
fetchSettlesCatchOnly(i, settlement) ==
    /\ i \in 1..Len(inflight)
    /\ IF settlement[1] = "ok"
       THEN /\ analysisResult' = ResultOf(settlement, inflight[i].image)
            /\ UNCHANGED <<error, isAnalyzing>>
       ELSE /\ error' = Some(FailureMessage(settlement))
            /\ isAnalyzing' = FALSE
            /\ UNCHANGED analysisResult
    /\ inflight' = RemoveAt(inflight, i)
    /\ UNCHANGED <<selectedImage, showCamera, readers, lastFile>>
    /\ UNCHANGED bridgeVars

\* fetchSettles with setIsAnalyzing(false) on the success path only (no
\* finally clause).
fetchSettlesNoFinally(i, settlement) ==
    /\ i \in 1..Len(inflight)
    /\ IF settlement[1] = "ok"
       THEN /\ analysisResult' = IF settlement[2] = "analysis"
                                 THEN <<(<<"analysis", inflight[i].image>>)>>
                                 ELSE <<>>
            /\ isAnalyzing' = FALSE
            /\ UNCHANGED error
       ELSE /\ error' = <<(IF settlement[1] = "failJson" /\ settlement[2] # <<>>
                          THEN settlement[2][1] ELSE "Failed to analyze image")>>
            /\ UNCHANGED <<analysisResult, isAnalyzing>>
    /\ inflight' = SubSeq(inflight, 1, i - 1) \o SubSeq(inflight, i + 1, Len(inflight))
    /\ UNCHANGED <<selectedImage, showCamera, readers, lastFile>>
    /\ UNCHANGED <<bpc, reqBody, upstream, extCalls, responses>>

\* handleAnalyze (lines 346-363) once the i-th outstanding fetch has settled.
fetchSettles(i, settlement) ==
    /\ i \in 1..Len(inflight)
    /\ IF settlement[1] = "ok"
       THEN /\ analysisResult' = ResultOf(settlement, inflight[i].image)
            /\ UNCHANGED error
       ELSE /\ error' = Some(FailureMessage(settlement))
            /\ UNCHANGED analysisResult
    /\ isAnalyzing' = FALSE
    /\ inflight' = RemoveAt(inflight, i)
    /\ UNCHANGED <<selectedImage, showCamera, readers, lastFile>>
    /\ UNCHANGED bridgeVars

(***************************************************************************)
(* Specifications.                                                         *)
(***************************************************************************)
\* The client; no bridge invocation is followed.
Init ==
    /\ InitClientVars
    /\ bpc = "done" /\ reqBody = <<"unparsable">> /\ upstream = None
    /\ extCalls = 0 /\ responses = <<>>

Next ==
    \/ \E file \in Files : handleImageUpload(file)
    \/ \E i \in 1..MaxReaders : readerOnload(i)
    \/ handleCapture
    \/ cancelCamera
    \/ \E imageSrc \in Screenshots : captureImage(imageSrc)
    \/ handleAnalyze
    \/ \E i \in 1..MaxInflight : \E settlement \in Settlements :
          fetchSettles(i, settlement)

Spec == Init /\ [][Next]_vars

\* One invocation of the bridge; the client stays as mounted.
InitBridge == InitBridgeVars /\ InitClientVars

NextBridge == BridgeReceive \/ BridgeUpstream

SpecBridge == InitBridge /\ [][NextBridge]_vars

(***************************************************************************)
(* Properties of the bridge (checked under SpecBridge).                    *)
(***************************************************************************)
BridgeDone == bpc = "done" /\ Len(responses) = 1
Response == responses[1]

\* The model replied with the non-empty text the handler went on to parse.
RepliedText ==
    /\ BridgeDone
    /\ IsSome(upstream)
    /\ Get(upstream)[1] = "text"
    /\ Get(upstream)[2] # <<>>
ReplyText == Get(upstream)[2]

\* The four response shapes of the HTTP endpoint.
IsOk200(r) ==
    r.status = 200 /\ IsSome(r.value) /\ r.error = None
IsMissingImage400(r) ==
    /\ r.status = 400 /\ r.error = Some("No image provided")
    /\ r.raw = None /\ r.details = None /\ r.value = None
IsParseFailure500(r) ==
    /\ r.status = 500 /\ r.error = Some("Failed to parse analysis response")
    /\ IsSome(r.raw) /\ r.details = None /\ r.value = None
IsGenericFailure500(r) ==
    /\ r.status = 500 /\ r.error = Some("Failed to analyze food image")
    /\ IsSome(r.details) /\ r.raw = None /\ r.value = None

\* The body carries no image key, or an empty image value.
NoImageInBody(body) ==
    \/ body[1] # "object"
    \/ body[2][1] \in {"absent", "null"}
    \/ body[2] = <<"string", <<>> >>

\* C1: every request whose body carries no image key or an empty image value
\* is answered 400 {error: "No image provided"}, and the external model call
\* is never issued for it.
C1_MissingImageIs400 ==
    (bpc = "done" /\ NoImageInBody(reqBody)) =>
        /\ Len(responses) = 1
        /\ IsMissingImage400(responses[1])
        /\ extCalls = 0

\* A fenced block: the opening fence and, after it, three backticks.
HasFencedBlock(t) ==
    \E i \in 1..Len(t) : \E j \in 1..Len(t) :
        HasAt(t, i, FENCE) /\ j >= i + Len(FENCE) /\ HasAt(t, j, TICKS)

\* A brace span: an opening brace and, after it, a closing brace.
HasBraceSpan(t) ==
    \E i \in 1..Len(t) : \E j \in 1..Len(t) : i < j /\ t[i] = "{" /\ t[j] = "}"

NoCandidateJson(t) == ~HasFencedBlock(t) /\ ~HasBraceSpan(t)

RawIsReply(r) == IsParseFailure500(r) /\ r.raw = Some(ReplyText)

\* C2 (as stated): a reply in which no candidate JSON is found (no fenced
\* block and no brace span), or whose candidate fails to parse, is answered
\* 500 "Failed to parse analysis response" with raw equal to the model text.
C2_NoCandidateIs500 ==
    (RepliedText /\ (NoCandidateJson(ReplyText)
                       \/ ~JSONParse(ExtractJsonString(ReplyText)).ok)) =>
        RawIsReply(Response)

\* C2 (amended): a reply whose candidate fails to parse is answered 500
\* "Failed to parse analysis response" with raw equal to the unmodified model
\* text and never 200, the candidate being the entire text when no fenced
\* block and no brace span is found: such a reply is answered 500 exactly
\* when the entire text is not valid JSON.
C2_UnparsableCandidateIs500 ==
    RepliedText =>
        /\ ~JSONParse(ExtractJsonString(ReplyText)).ok => RawIsReply(Response)
        /\ NoCandidateJson(ReplyText) =>
              IF JSONParse(ReplyText).ok
              THEN Response.status = 200
                     /\ Response.value = JSONParse(ReplyText).val
              ELSE RawIsReply(Response)

\* C2 witness: a reply with text around a fenced block whose contents do not
\* parse, answered 500 with the whole reply as raw.
C2_Witness ==
    /\ RepliedText
    /\ ReplyText = WORD \o FENCE \o NL \o WORD \o TICKS
    /\ RawIsReply(Response)

\* The reply is a json fence enclosing a valid JSON object (whitespace around
\* the object allowed) and nothing else.
FenceContents(t) == SubSeq(t, Len(FENCE) + 1, Len(t) - Len(TICKS))

IsFencedObject(t) ==
    /\ Len(t) >= Len(FENCE) + Len(TICKS) + 2
    /\ HasAt(t, 1, FENCE)
    /\ HasAt(t, Len(t) - Len(TICKS) + 1, TICKS)
    /\ JSONParse(FenceContents(t)).ok
    /\ Get(JSONParse(FenceContents(t)).val)[1] = "obj"

\* C3: a reply that is a json fence enclosing a valid JSON object is answered
\* 200 with exactly the object parsed from the fence contents.
C3_FencedObjectVerbatim ==
    (RepliedText /\ IsFencedObject(ReplyText)) =>
        /\ Response.status = 200
        /\ Response.value = JSONParse(FenceContents(ReplyText)).val

\* The request carried a non-empty image and failed otherwise than by a
\* missing image or a malformed model text.
HasNonEmptyImage(body) ==
    /\ body[1] = "object"
    /\ \/ body[2][1] = "string" /\ body[2][2] # <<>>
       \/ body[2][1] = "number" /\ body[2][2] # 0

OtherFailure ==
    /\ bpc = "done"
    /\ HasNonEmptyImage(reqBody)
    /\ \/ upstream = None
       \/ Get(upstream)[1] \in {"throws", "nocontent"}
       \/ Get(upstream) = <<"text", <<>> >>

\* C4: a request with a non-empty image in which the external call throws or
\* the model returns no text content is answered 500 "Failed to analyze food
\* image" with details; every request gets exactly one response, of one of
\* the four shapes, and none before the handler returns.
C4_OneResponseOfFourShapes ==
    /\ bpc # "done" => responses = <<>>
    /\ bpc = "done" =>
          /\ Len(responses) = 1
          /\ \/ IsOk200(responses[1])
             \/ IsMissingImage400(responses[1])
             \/ IsParseFailure500(responses[1])
             \/ IsGenericFailure500(responses[1])
    /\ OtherFailure => IsGenericFailure500(responses[1])

\* C4 witness: the external call threw and the generic failure was returned.
C4_Witness ==
    /\ OtherFailure
    /\ extCalls = 1
    /\ upstream = Some(<<"throws", "Connection error.">>)
    /\ responses[1].details = Some("Connection error.")

(***************************************************************************)
(* Properties of the client (checked under Spec).                          *)
(***************************************************************************)
\* C5: while an analysis request is in flight the client is Analyzing and no
\* second request is issued: at most one request is outstanding.
C5_AtMostOneOutstanding ==
    /\ Len(inflight) <= 1
    /\ inflight # <<>> => isAnalyzing

\* C5 witness: a request is in flight and a newer image, not the one sent,
\* is held, with a further file selection pending.
C5_Witness ==
    /\ Len(inflight) = 1
    /\ IsSome(selectedImage)
    /\ Get(selectedImage) # inflight[1].image
    /\ readers # <<>>

\* C6: whenever the client holds an AnalysisResult, it was produced from the
\* image the client currently holds.
C6_ResultIsOfHeldImage ==
    IsSome(analysisResult) =>
        selectedImage = Some(Get(analysisResult)[2])

\* C7: a step that replaces the held image leaves no result, and no step
\* stores a result of an image other than the one held.
C7_NewImageNeverWithOldResult ==
    [][/\ selectedImage' # selectedImage => analysisResult' = None
       /\ (analysisResult' # analysisResult /\ IsSome(analysisResult')) =>
              selectedImage' = Some(Get(analysisResult')[2])]_vars

\* The declared MIME type starts with image/.
IsImageMime(type) ==
    Len(type) >= 6 /\ SubSeq(type, 1, 6) = <<"i", "m", "a", "g", "e", "/">>

\* The MIME type a data URI declares: the characters between "data:" and ";".
MimeOf(uri) ==
    LET semi == CHOOSE k \in 1..Len(uri) :
                    uri[k] = ";" /\ \A m \in 1..(k - 1) : uri[m] # ";"
    IN  SubSeq(uri, 6, semi - 1)

\* C8: selecting a file whose MIME type does not start with image/ sets the
\* InvalidType error and starts no decode and no request; no image held or
\* sent to the bridge ever comes from such a file.
C8_InvalidTypeRejected ==
    /\ [](/\ \A k \in 1..Len(inflight) : IsImageMime(MimeOf(inflight[k].image))
          /\ \A k \in 1..Len(readers) : IsImageMime(readers[k].type)
          /\ IsSome(selectedImage) => IsImageMime(MimeOf(Get(selectedImage))))
    /\ [][\A file \in Files :
             (~IsImageMime(file.type) /\ handleImageUpload(file)) =>
                 /\ error' = Some("Please select an image file")
                 /\ UNCHANGED <<inflight, readers, selectedImage, isAnalyzing>>]_vars

\* C8 witness: a file of type text/plain was rejected while an image was
\* held and no request was outstanding.
C8_Witness ==
    /\ error = Some("Please select an image file")
    /\ IsSome(selectedImage)
    /\ inflight = <<>>
    /\ readers = <<>>

\* C9: a file of an image type is rejected with TooLarge exactly when its
\* size exceeds 5242880 bytes; otherwise its decode is started, and when the
\* decode completes the client holds its data URI.
C9_TooLargeAbove5MiB ==
    [][/\ \A file \in Files :
             (IsImageMime(file.type) /\ handleImageUpload(file)) =>
                 IF file.size > 5242880
                 THEN error' = Some("Image size should be less than 5MB")
                        /\ readers' = readers
                 ELSE readers' = Append(readers, file) /\ error' = error
       /\ \A i \in 1..Len(readers) :
             readerOnload(i) =>
                 /\ IsSome(selectedImage')
                 /\ IsImageMime(MimeOf(Get(selectedImage')))
                 /\ readers[i].size <= 5242880]_vars

\* C9 witness: a file of exactly 5 MiB was selected and decoded.
C9_Witness ==
    /\ lastFile = Some([type |-> IMAGE_PNG, size |-> 5242880])
    /\ selectedImage = Some(ReadAsDataURL([type |-> IMAGE_PNG, size |-> 5242880]))
    /\ readers = <<>>

\* A non-OK response or a rejected fetch.
FailedSettlement(settlement) ==
    settlement[1] \in {"failJson", "failOther", "rejects"}

\* C10 (as stated): a failed analysis request leaves a non-null error
\* message, the client out of Analyzing, and no AnalysisResult.
C10_FailureLeavesNoResult ==
    [][\A i \in 1..MaxInflight : \A settlement \in Settlements :
          (FailedSettlement(settlement) /\ fetchSettles(i, settlement)) =>
              /\ IsSome(error')
              /\ ~isAnalyzing'
              /\ analysisResult' = None]_vars

\* C10 (amended): a failed analysis request leaves a non-null error message
\* and the client out of Analyzing, and leaves the AnalysisResult as it was:
\* null if it was null, the earlier result after a failed re-analysis.
C10_FailureKeepsResult ==
    [][\A i \in 1..MaxInflight : \A settlement \in Settlements :
          (FailedSettlement(settlement) /\ fetchSettles(i, settlement)) =>
              /\ IsSome(error')
              /\ ~isAnalyzing'
              /\ analysisResult' = analysisResult]_vars

\* C10 witness: a re-analysis of an analysed image failed: the fetch error
\* is shown, the client is not Analyzing, and the earlier result is held.
C10_Witness ==
    /\ error = Some("Failed to fetch")
    /\ ~isAnalyzing
    /\ inflight = <<>>
    /\ IsSome(selectedImage)
    /\ analysisResult = Some(<<"analysis", Get(selectedImage)>>)

(***************************************************************************)
(* Further properties of the bridge (checked under SpecBridge).            *)
(***************************************************************************)
\* The handler answered as if candidate had been the text it parsed.
AnsweredFrom(candidate) ==
    IF JSONParse(candidate).ok
    THEN Response.status = 200 /\ Response.value = JSONParse(candidate).val
    ELSE RawIsReply(Response)

\* The positions at which the reply carries a json fenced block.
FencedBlocks(t) == { i \in 1..Len(t) : FenceChoices(t, i) # {} }

FirstOf(ps) == CHOOSE i \in ps : \A m \in ps : i <= m

\* C11: when the reply contains a json fenced block, the bridge parses the
\* contents of that block, whatever the text before it, a "{" included.
\* Stated for the replies that end with the closing fence of a block whose
\* contents are valid JSON: they are answered 200 with those contents.
C11_FencePreferred ==
    (/\ RepliedText
     /\ FencedBlocks(ReplyText) # {}
     /\ HasAt(ReplyText, Len(ReplyText) - Len(TICKS) + 1, TICKS)
     /\ JSONParse(FenceGroup(ReplyText, FirstOf(FencedBlocks(ReplyText)))).ok) =>
        AnsweredFrom(FenceGroup(ReplyText, FirstOf(FencedBlocks(ReplyText))))

\* The reply carries no opening json fence.
NoFence(t) == \A i \in 1..Len(t) : ~HasAt(t, i, FENCE)

OpenBraces(t) == { i \in 1..Len(t) : t[i] = "{" }

\* The ends j of a valid JSON object that starts at the first "{" of t.
FirstObjectEnds(t) ==
    IF OpenBraces(t) = {} THEN {}
    ELSE LET i == FirstOf(OpenBraces(t))
         IN  { j \in (i + 1)..Len(t) :
                 /\ t[j] = "}"
                 /\ JSONParse(SubSeq(t, i, j)).ok }

FirstObject(t) ==
    SubSeq(t, FirstOf(OpenBraces(t)), FirstOf(FirstObjectEnds(t)))

\* C12: when the reply contains no fenced block and a valid JSON object
\* starts at its first "{", the bridge answers 200 with that object,
\* whatever text follows it.
C12_FirstObjectParsed ==
    (RepliedText /\ NoFence(ReplyText) /\ FirstObjectEnds(ReplyText) # {}) =>
        /\ Response.status = 200
        /\ Response.value = JSONParse(FirstObject(ReplyText)).val

(***************************************************************************)
(* Further properties of the client (checked under Spec).                  *)
(***************************************************************************)
\* A step that is a successful capture or upload: a decode completing, or a
\* camera shot being taken.
Captures(image) ==
    \/ \E i \in 1..Len(readers) :
          readerOnload(i) /\ image = ReadAsDataURL(readers[i])
    \/ captureImage(Some(image)) /\ image \in { Get(x) : x \in Screenshots \ {None} }

CapturedImages ==
    { ReadAsDataURL(f) : f \in Files } \cup { Get(x) : x \in Screenshots \ {None} }

\* C13 (as stated): a successful capture or upload taken in any state puts
\* the client in ImageSelected: the new image held, no result, no error, and
\* not Analyzing.
C13_CaptureEntersImageSelected ==
    [][\A image \in CapturedImages :
          Captures(image) =>
              /\ selectedImage' = Some(image)
              /\ analysisResult' = None
              /\ error' = None
              /\ ~isAnalyzing']_vars

\* C13 (amended): the client starts Idle; it enters Analyzing only by an
\* analysis trigger taken while an image is held, and leaves it only when a
\* request settles; a result or an analysis error is stored only by a
\* settling request; a successful capture or upload taken in any state
\* leaves the new image held, no result and no error, and leaves the
\* Analyzing flag as it was.
C13_CaptureKeepsAnalyzing ==
    /\ (selectedImage = None /\ analysisResult = None /\ ~isAnalyzing
          /\ error = None /\ inflight = <<>>)
    /\ [][/\ \A image \in CapturedImages :
                Captures(image) =>
                    /\ selectedImage' = Some(image)
                    /\ analysisResult' = None
                    /\ error' = None
                    /\ isAnalyzing' = isAnalyzing
          /\ (~isAnalyzing /\ isAnalyzing') =>
                /\ IsSome(selectedImage)
                /\ Len(inflight') = Len(inflight) + 1
          /\ (isAnalyzing /\ ~isAnalyzing') => Len(inflight') < Len(inflight)
          /\ (IsSome(analysisResult') /\ analysisResult' # analysisResult) =>
                Len(inflight') < Len(inflight)]_vars

\* C13 witness: an image was captured while a request for an earlier image
\* was in flight: the new image is held with no result and no error, and
\* the client is still Analyzing.
C13_Witness ==
    /\ isAnalyzing
    /\ Len(inflight) = 1
    /\ IsSome(selectedImage)
    /\ Get(selectedImage) # inflight[1].image
    /\ analysisResult = None
    /\ error = None

\* C14: a settling request, successful or failed, leaves the client out of
\* Analyzing with an image held, so that the analysis trigger is enabled
\* again; the client is Analyzing only while a request is outstanding.
C14_SettlingLeavesAnalyzing ==
    /\ [](isAnalyzing => inflight # <<>>)
    /\ [][\A i \in 1..MaxInflight : \A settlement \in Settlements :
             fetchSettles(i, settlement) =>
                 /\ ~isAnalyzing'
                 /\ IsSome(selectedImage')
                 /\ inflight' = <<>>]_vars

\* C14 witness: a request succeeded, the client is out of Analyzing and the
\* result is held with its image.
C14_Witness ==
    /\ ~isAnalyzing
    /\ inflight = <<>>
    /\ IsSome(selectedImage)
    /\ analysisResult = Some(<<"analysis", Get(selectedImage)>>)
    /\ error = None

\* C15: once every decode has completed, a held image that came from a file
\* is the data URI of the most recently selected file.
C15_LatestSelectionHeld ==
    (/\ readers = <<>>
     /\ IsSome(lastFile)
     /\ IsSome(selectedImage)
     /\ MimeOf(Get(selectedImage)) # IMAGE_JPEG) =>
        selectedImage = Some(ReadAsDataURL(Get(lastFile)))

\* The file is rejected: its type does not start with image/ or its size
\* exceeds 5 MiB.
Rejected(file) == ~IsImageMime(file.type) \/ file.size > 5242880

\* C16: a rejected file selection changes only the error message: the held
\* image, the held result, the Analyzing flag and the camera flag are left
\* as they were, and no decode is started.
C16_RejectionChangesOnlyError ==
    [][\A file \in Files :
          (Rejected(file) /\ handleImageUpload(file)) =>
              /\ error' \in {Some("Please select an image file"),
                             Some("Image size should be less than 5MB")}
              /\ UNCHANGED <<selectedImage, analysisResult, isAnalyzing,
                             showCamera, readers, inflight, lastFile>>]_vars

\* C16 witness: a file of more than 5 MiB was rejected while an image and
\* its result were held and the camera was open.
C16_Witness ==
    /\ error = Some("Image size should be less than 5MB")
    /\ IsSome(selectedImage)
    /\ IsSome(analysisResult)
    /\ showCamera
    /\ readers = <<>>

====
